---------------------------- MODULE Spec2Model ----------------------------
(***************************************************************************)
(* The token notifier endpoint (notifier-endpoint/api/notifier.js): one    *)
(* HTTP handler that stores an access token in a blob store on POST and    *)
(* serves the most recently uploaded one on GET.  Every request is a       *)
(* process; every await of the handler is a step boundary, the blob store  *)
(* answers one request per step.                                           *)
(***************************************************************************)
EXTENDS Integers, Sequences, FiniteSets, TLC

\* ------------------------------------------------------------------ bounds
NumReq == 2       \* requests handled in one behaviour
MaxTime == 2      \* the millisecond clock runs from 0 to MaxTime

\* --------------------------------------------------------------- constants
MsPerHour == 3600000

Procs == 1..NumReq

\* --------------------------------------------------------------- JS values
\* A JavaScript value: its type, its text (strings) and the number it holds
\* (numbers) or parses to (numeric strings).  NaN is the number "not a number".
NaN == -1
Undefined == [t |-> "undefined", n |-> 0, s |-> ""]
Null == [t |-> "null", n |-> 0, s |-> ""]
NaNValue == [t |-> "nan", n |-> NaN, s |-> ""]
Num(k) == [t |-> "number", n |-> k, s |-> ""]
Str(text) == [t |-> "string", n |-> NaN, s |-> text]
NumStr(k) == [t |-> "string", n |-> k, s |-> ToString(k)]
Bool(b) == [t |-> "boolean", n |-> IF b THEN 1 ELSE 0, s |-> ""]
\* new Date(ms).toISOString()
ISOString(ms) == [t |-> "isostring", n |-> ms, s |-> ""]

\* JavaScript truthiness (the `!x`, `x ? a : b` and `x && y` tests)
Truthy(v) ==
  CASE v.t = "undefined" -> FALSE
    [] v.t = "null" -> FALSE
    [] v.t = "nan" -> FALSE
    [] v.t = "number" -> v.n # 0
    [] v.t = "string" -> v.s # ""
    [] v.t = "boolean" -> v.n = 1
    [] OTHER -> TRUE

\* parseInt(v): the integer a value's text starts with, NaN when there is none
ParseInt(v) ==
  CASE v.t = "number" -> v.n
    [] v.t = "string" -> v.n
    [] OTHER -> NaN

\* Math.round(x / d) for integers x and d > 0: floor(x / d + 1/2)
MathRoundDiv(x, d) == (2 * x + d) \div (2 * d)

\* expires_at ? Math.round((new Date(parseInt(expires_at)) - new Date()) / 3600000) : null
HoursUntil(expires_at, clock) ==
  IF ~Truthy(expires_at) THEN Null
  ELSE IF ParseInt(expires_at) = NaN THEN NaNValue
  ELSE Num(MathRoundDiv(ParseInt(expires_at) - clock, MsPerHour))

\* new Date() > new Date(parseInt(expires_at)); false for an invalid date
DateAfter(clock, expires_at) ==
  ParseInt(expires_at) # NaN /\ clock > ParseInt(expires_at)

\* ------------------------------------------------------------------- JSON
Fields == {"access_token", "expires_at", "issued_at", "client_id", "user_id",
           "stored_at", "expires_in_hours"}
\* a property that JSON.stringify left out of the text
Absent == [t |-> "absent", n |-> 0, s |-> ""]

\* JSON.stringify(tokenData, null, 2): undefined properties are dropped,
\* NaN is written as null
JSONStringify(obj) ==
  [f \in Fields |->
     CASE obj[f].t = "undefined" -> Absent
       [] obj[f].t = "nan" -> Null
       [] OTHER -> obj[f]]

\* JSON.parse(text): reading a property the text does not have gives undefined
JSONParse(text) ==
  [f \in Fields |-> IF text[f] = Absent THEN Undefined ELSE text[f]]

\* --------------------------------------------------------------- requests
Methods == {"POST", "GET", "OPTIONS", "PUT"}

\* a request without a body: req.body is undefined
NoBody == [access_token |-> Absent, expires_at |-> Absent, issued_at |-> Absent,
           client_id |-> Absent, user_id |-> Absent]

Body(a, e, c, u) ==
  [access_token |-> a, expires_at |-> e, issued_at |-> Undefined,
   client_id |-> c, user_id |-> u]

Bodies ==
  { Body(Undefined, NumStr(1), Str("c1"), Str("u1")),
    Body(Str(""), Undefined, Str("c1"), Undefined),
    Body(Str("tokA"), Undefined, Str("c1"), Undefined),
    Body(Str("tokB"), NumStr(1), Undefined, Str("u1")),
    Body(Str("tokA"), Num(0), Str("c1"), Str("u1")),
    Body(Str("tokB"), Str("soon"), Str("c2"), Str("u1")) }

VARIABLES
  now,          \* the millisecond clock (Date.now(), new Date(), the store's clock)
  configured,   \* process.env.BLOB_READ_WRITE_TOKEN is set
  store,        \* the blob store: the records under the prefix
  pc,           \* where each request's handler stands
  method,       \* req.method
  body,         \* req.body
  tokenData,    \* POST: the object to store; GET: the object parsed
  pending,      \* POST: the listed records whose delete request is still out
  blobs,        \* GET: listData.blobs, sorted in place
  filename,     \* POST: the clock value in uniqueFilename
  res,          \* the response sent
  storeOk,      \* every store call of the request so far was answered ok
  answer,       \* how the store answered the request's latest call
  raced,        \* POST: another POST's PUT ran between this one's listing and PUT
  lastPut,      \* the request whose PUT the store executed last (0: none)
  quietPost,    \* the POST answered 200 last, while nothing else has happened since (0: none)
  pred          \* GET: the POST answered 200 right before this request started (0: none)

vars == <<now, configured, store, pc, method, body, tokenData, pending,
          blobs, filename, res, storeOk, answer, raced, lastPut, quietPost, pred>>

\* ---------------------------------------------------------------- messages
\* An error message is a sequence of text pieces; includes() looks for a piece.
Includes(message, piece) == \E i \in DOMAIN message : message[i] = piece

\* `Failed to list token files: ${listResponse.status}`
ListFailedMessage(status) == <<"Failed to list token files: ", ToString(status)>>
\* `Failed to fetch token content: ${tokenResponse.status}`
FetchFailedMessage(status) == <<"Failed to fetch token content: ", ToString(status)>>
\* what fetch() throws when the store cannot be reached
NetworkErrorMessage == <<"fetch failed">>
\* what JSON.parse throws: the engine names the place of the error in the text
ParseErrorMessages ==
  { <<"Unexpected token < in JSON at position ", "0">>,
    <<"Unexpected token } in JSON at position ", "404">> }

\* --------------------------------------------------------------- responses
NoFields ==
  [access_token |-> Undefined, expires_at |-> Undefined, expires_in_hours |-> Undefined,
   client_id |-> Undefined, user_id |-> Undefined, stored_at |-> Undefined,
   is_valid |-> Undefined, expired_at |-> Undefined]

\* res.status(status).json({success, message, error, ...fields})
Response(status, success, message, error, fields) ==
  [status |-> status, success |-> success, message |-> message, error |-> error,
   fields |-> fields]

NoResponse == Response(0, FALSE, "", <<>>, NoFields)

\* lines 103-109
PostOkResponse(td, ts) ==
  Response(200, TRUE, "Access token updated successfully", <<>>,
           [NoFields EXCEPT !.expires_in_hours = td.expires_in_hours,
                            !.stored_at = ts,
                            !.client_id = td.client_id])

\* lines 111-118
PostFailedResponse(error) ==
  Response(500, FALSE, "Failed to update access token", error, NoFields)

NotFoundResponse ==
  Response(404, FALSE, "No access token found. Please generate a new token first.",
           <<>>, NoFields)

\* lines 187-202
GetErrorResponse(error) ==
  IF Includes(error, "404") \/ Includes(error, "not found")
  THEN NotFoundResponse
  ELSE Response(500, FALSE, "Failed to retrieve token", error, NoFields)

\* GetTokenResponse with user_id read from client_id
GetTokenResponseSwapped(td, clock) ==
  LET isExpired == Truthy(td.expires_at) /\ DateAfter(clock, td.expires_at)
      timeUntilExpiry == HoursUntil(td.expires_at, clock)
  IN IF isExpired
     THEN Response(410, FALSE, "Token has expired. Please generate a new token.", <<>>,
                   [NoFields EXCEPT !.expired_at = ISOString(ParseInt(td.expires_at))])
     ELSE Response(200, TRUE, "", <<>>,
                   [NoFields EXCEPT !.access_token = td.access_token,
                                    !.expires_at = td.expires_at,
                                    !.expires_in_hours = timeUntilExpiry,
                                    !.client_id = td.client_id,
                                    !.user_id = td.client_id,
                                    !.stored_at = td.stored_at,
                                    !.is_valid = Bool(~isExpired)])

\* lines 160-185
GetTokenResponse(td, clock) ==
  LET isExpired == Truthy(td.expires_at) /\ DateAfter(clock, td.expires_at)
      timeUntilExpiry == HoursUntil(td.expires_at, clock)
  IN IF isExpired
     THEN Response(410, FALSE, "Token has expired. Please generate a new token.", <<>>,
                   [NoFields EXCEPT !.expired_at = ISOString(ParseInt(td.expires_at))])
     ELSE Response(200, TRUE, "", <<>>,
                   [NoFields EXCEPT !.access_token = td.access_token,
                                    !.expires_at = td.expires_at,
                                    !.expires_in_hours = timeUntilExpiry,
                                    !.client_id = td.client_id,
                                    !.user_id = td.user_id,
                                    !.stored_at = td.stored_at,
                                    !.is_valid = Bool(~isExpired)])

\* ------------------------------------------------------------ token object
NoToken == [f \in Fields |-> Undefined]

\* lines 39-47
MakeTokenData(b, ts, clock) ==
  [access_token |-> b.access_token, expires_at |-> b.expires_at,
   issued_at |-> b.issued_at, client_id |-> b.client_id, user_id |-> b.user_id,
   stored_at |-> ts, expires_in_hours |-> HoursUntil(b.expires_at, clock)]

\* --------------------------------------------------------------- the store
\* What a listing says of a record: its pathname and url (both fixed by the
\* key), its upload time and, for the record's identity, the request that put it.
Entry(r) == [key |-> r.key, uploadedAt |-> r.uploadedAt, writer |-> r.writer]
Listing == {Entry(r) : r \in store}
\* all orders in which the store may list the set S of entries
Orderings(S) ==
  {seq \in [1..Cardinality(S) -> S] : \A i, j \in 1..Cardinality(S) : seq[i] = seq[j] => i = j}

\* CompareBlobs with its operands swapped: the oldest record sorts first
CompareBlobsAscending(a, b) == a.uploadedAt - b.uploadedAt
\* CompareBlobs on the time in the pathname instead of the upload time
CompareBlobsByName(a, b) == b.key - a.key

\* (a, b) => new Date(b.uploadedAt) - new Date(a.uploadedAt)
CompareBlobs(a, b) == b.uploadedAt - a.uploadedAt

\* where x goes in a sorted array: behind everything that does not sort after it
InsertSorted(x, sorted) ==
  LET behind == {i \in 0..Len(sorted) : \A j \in 1..i : CompareBlobs(sorted[j], x) <= 0}
      at == CHOOSE i \in behind : \A k \in behind : k <= i
  IN SubSeq(sorted, 1, at) \o <<x>> \o SubSeq(sorted, at + 1, Len(sorted))

\* Array.prototype.sort with CompareBlobs: a stable sort
RECURSIVE SortBlobs(_)
SortBlobs(seq) ==
  IF seq = <<>> THEN <<>>
  ELSE InsertSorted(seq[Len(seq)], SortBlobs(SubSeq(seq, 1, Len(seq) - 1)))

InFlight(p) == pc[p] \notin {"idle", "done"}
PostWindow == {"p_del", "p_issue", "p_put"}

\* StoreAfterDelete of a store that answers ok without deleting
StoreAfterDeleteKeeps(S, e, o) == S

\* the store after it answered `o` to the DELETE of a listed entry's url
StoreAfterDelete(S, e, o) == IF o = "ok" THEN {r \in S : r.key # e.key} ELSE S

\* the store after a PUT it accepted: the record replaces what its key held
StoreAfterPut(S, rec) == {r \in S : r.key # rec.key} \cup {rec}

\* the record a PUT of request p leaves in the store
PutRecord(p, key, clock, td) ==
  [key |-> key, uploadedAt |-> clock, writer |-> p, content |-> JSONStringify(td)]

\* What an earlier POST (request 0, posted at time 0) may have left in the
\* store by the time `clock`: nothing, or its record.
EarlierBody == Body(Str("tok0"), Undefined, Str("c0"), Str("u0"))
EarlierStores(clock) ==
  {{}} \cup {{PutRecord(0, 0, u, MakeTokenData(EarlierBody, ISOString(0), 0))} : u \in 0..clock}

\* -------------------------------------------------------------------- Init
\* The handler keeps no state of its own; the store is empty or holds what
\* an earlier POST left.
Init ==
  /\ now \in 0..1
  /\ configured \in BOOLEAN
  /\ store \in EarlierStores(now)
  /\ pc = [p \in Procs |-> "idle"]
  /\ method = [p \in Procs |-> "GET"]
  /\ body = [p \in Procs |-> NoBody]
  /\ tokenData = [p \in Procs |-> NoToken]
  /\ pending = [p \in Procs |-> {}]
  /\ blobs = [p \in Procs |-> <<>>]
  /\ filename = [p \in Procs |-> 0]
  /\ res = [p \in Procs |-> NoResponse]
  /\ storeOk = [p \in Procs |-> TRUE]
  /\ answer = [p \in Procs |-> "none"]
  /\ raced = [p \in Procs |-> FALSE]
  /\ lastPut = 0
  /\ quietPost = 0
  /\ pred = [p \in Procs |-> 0]

\* the clock moves on
Tick ==
  /\ now < MaxTime
  /\ now' = now + 1
  /\ UNCHANGED <<configured, store, pc, method, body, tokenData, pending,
                 blobs, filename, res, storeOk, answer, raced, lastPut, quietPost, pred>>

\* ---------------------------------------------------------------- handler
\* FirstResponse with the token test `access_token === undefined`
FirstResponseLoose(m, b) ==
  IF m = "OPTIONS" THEN Response(200, FALSE, "", <<>>, NoFields)
  ELSE IF ~configured
    THEN Response(500, FALSE, "Blob storage not configured", <<>>, NoFields)
  ELSE IF m = "POST" /\ b = NoBody
    THEN Response(500, FALSE, "Internal server error",
                  <<"Cannot destructure property of req.body">>, NoFields)
  ELSE IF m = "POST" /\ b.access_token = Undefined
    THEN Response(400, FALSE, "access_token is required", <<>>, NoFields)
  ELSE IF m \in {"POST", "GET"} THEN NoResponse
  ELSE Response(405, FALSE, "Method not allowed", <<>>, NoFields)

\* What the handler does before its first await (lines 5-47, 121, 205-208):
\* the answer it gives at once, or NoResponse when it goes on to the store.
FirstResponse(m, b) ==
  IF m = "OPTIONS" THEN Response(200, FALSE, "", <<>>, NoFields)
  ELSE IF ~configured
    THEN Response(500, FALSE, "Blob storage not configured", <<>>, NoFields)
  ELSE IF m = "POST" /\ b = NoBody
    THEN Response(500, FALSE, "Internal server error",
                  <<"Cannot destructure property of req.body">>, NoFields)
  ELSE IF m = "POST" /\ ~Truthy(b.access_token)
    THEN Response(400, FALSE, "access_token is required", <<>>, NoFields)
  ELSE IF m \in {"POST", "GET"} THEN NoResponse
  ELSE Response(405, FALSE, "Method not allowed", <<>>, NoFields)

\* A request arrives and the handler runs to its first await.
Start(p, m, b) ==
  /\ pc[p] = "idle"
  /\ \A q \in Procs : q < p => pc[q] # "idle"
  /\ m = "POST" \/ b = NoBody
  /\ method' = [method EXCEPT ![p] = m]
  /\ body' = [body EXCEPT ![p] = b]
  /\ pred' = [pred EXCEPT ![p] = IF m = "GET" THEN quietPost ELSE 0]
  /\ quietPost' = 0
  /\ LET first == FirstResponse(m, b)
     IN IF first # NoResponse
        THEN /\ res' = [res EXCEPT ![p] = first]
             /\ pc' = [pc EXCEPT ![p] = "done"]
             /\ UNCHANGED tokenData
        ELSE /\ pc' = [pc EXCEPT ![p] = IF m = "POST" THEN "p_list" ELSE "g_list"]
             /\ tokenData' = [tokenData EXCEPT ![p] =
                    IF m = "POST" THEN MakeTokenData(b, ISOString(now), now) ELSE NoToken]
             /\ UNCHANGED res
  /\ UNCHANGED <<now, configured, store, pending, blobs, filename, storeOk, answer,
                 raced, lastPut>>

\* PostList without the inner try/catch: a failed listing fails the POST
PostListStrict(p, o) ==
  /\ pc[p] = "p_list"
  /\ IF o = "ok"
     THEN /\ pending' = [pending EXCEPT ![p] = Listing]
          /\ pc' = [pc EXCEPT ![p] = IF Listing = {} THEN "p_issue" ELSE "p_del"]
          /\ UNCHANGED <<res, tokenData>>
     ELSE /\ res' = [res EXCEPT ![p] = PostFailedResponse(NetworkErrorMessage)]
          /\ pc' = [pc EXCEPT ![p] = "done"]
          /\ tokenData' = [tokenData EXCEPT ![p] = NoToken]
          /\ UNCHANGED pending
  /\ storeOk' = [storeOk EXCEPT ![p] = (o = "ok")]
  /\ answer' = [answer EXCEPT ![p] = o]
  /\ UNCHANGED <<now, configured, store, method, body, blobs,
                 filename, raced, lastPut, quietPost, pred>>

\* POST, lines 54-78: the store answers the prefix listing; the handler starts
\* one delete request for every listed record.
PostList(p, o) ==
  /\ pc[p] = "p_list"
  /\ LET listed == IF o = "ok" THEN Listing ELSE {}
     IN /\ pending' = [pending EXCEPT ![p] = listed]
        /\ pc' = [pc EXCEPT ![p] = IF listed = {} THEN "p_issue" ELSE "p_del"]
  /\ storeOk' = [storeOk EXCEPT ![p] = (o = "ok")]
  /\ answer' = [answer EXCEPT ![p] = o]
  /\ UNCHANGED <<now, configured, store, method, body, tokenData, blobs,
                 filename, res, raced, lastPut, quietPost, pred>>

\* POST, lines 64-76: the store answers one delete request; Promise.all resolves
\* when the last one is answered.
PostDelete(p, e, o) ==
  /\ pc[p] = "p_del"
  /\ e \in pending[p]
  /\ store' = StoreAfterDelete(store, e, o)
  /\ pending' = [pending EXCEPT ![p] = @ \ {e}]
  /\ pc' = [pc EXCEPT ![p] = IF pending[p] = {e} THEN "p_issue" ELSE "p_del"]
  /\ storeOk' = [storeOk EXCEPT ![p] = @ /\ o = "ok"]
  /\ answer' = [answer EXCEPT ![p] = o]
  /\ UNCHANGED <<now, configured, method, body, tokenData, blobs, filename,
                 res, raced, lastPut, quietPost, pred>>

\* POST, lines 84-92: the handler names the new record after the clock and
\* sends the PUT.
PostIssuePut(p) ==
  /\ pc[p] = "p_issue"
  /\ filename' = [filename EXCEPT ![p] = now]
  /\ pc' = [pc EXCEPT ![p] = "p_put"]
  /\ UNCHANGED <<now, configured, store, method, body, tokenData, pending,
                 blobs, res, storeOk, answer, raced, lastPut, quietPost, pred>>

\* POST, lines 85-118: the store answers the PUT and the handler answers.
PostPut(p, o) ==
  /\ pc[p] = "p_put"
  /\ IF o = "ok"
     THEN /\ store' = StoreAfterPut(store, PutRecord(p, filename[p], now, tokenData[p]))
          /\ res' = [res EXCEPT ![p] = PostOkResponse(tokenData[p], tokenData[p].stored_at)]
          /\ lastPut' = p
          /\ raced' = [q \in Procs |-> q # p /\ pc[q] \in PostWindow]
          /\ quietPost' = IF \A q \in Procs \ {p} : ~InFlight(q) THEN p ELSE 0
     ELSE /\ res' = [res EXCEPT ![p] = PostFailedResponse(
                       IF o = "throw" THEN NetworkErrorMessage
                       ELSE <<"Blob API error: ", "500">>)]
          /\ raced' = [raced EXCEPT ![p] = FALSE]
          /\ quietPost' = 0
          /\ UNCHANGED <<store, lastPut>>
  /\ pc' = [pc EXCEPT ![p] = "done"]
  /\ tokenData' = [tokenData EXCEPT ![p] = NoToken]
  /\ filename' = [filename EXCEPT ![p] = 0]
  /\ storeOk' = [storeOk EXCEPT ![p] = @ /\ o = "ok"]
  /\ answer' = [answer EXCEPT ![p] = o]
  /\ UNCHANGED <<now, configured, method, body, pending, blobs, pred>>

\* GET, lines 127-150: the store answers the prefix listing, in some order;
\* the handler sorts it and takes the first.
GetList(p, o, order) ==
  /\ pc[p] = "g_list"
  /\ o = "ok" \/ order = <<>>
  /\ IF o = "ok" /\ order # <<>>
     THEN /\ blobs' = [blobs EXCEPT ![p] = SortBlobs(order)]
          /\ pc' = [pc EXCEPT ![p] = "g_fetch"]
          /\ UNCHANGED res
     ELSE /\ res' = [res EXCEPT ![p] =
                 CASE o = "ok" -> NotFoundResponse
                   [] o = "s404" -> GetErrorResponse(ListFailedMessage(404))
                   [] o = "s500" -> GetErrorResponse(ListFailedMessage(500))
                   [] OTHER -> GetErrorResponse(NetworkErrorMessage)]
          /\ pc' = [pc EXCEPT ![p] = "done"]
          /\ UNCHANGED blobs
  /\ storeOk' = [storeOk EXCEPT ![p] = (o = "ok")]
  /\ answer' = [answer EXCEPT ![p] = o]
  /\ UNCHANGED <<now, configured, store, method, body, tokenData, pending,
                 filename, raced, lastPut, quietPost, pred>>

\* the record the url of a listed entry leads to now
AtUrl(e) == {r \in store : r.key = e.key}

\* GET, lines 152-202: the store answers the content fetch and the handler answers.
GetFetch(p, o, error) ==
  /\ pc[p] = "g_fetch"
  /\ LET latestTokenFile == blobs[p][1]
     IN /\ o \in {"ok", "garbled"} => AtUrl(latestTokenFile) # {}
        /\ o = "garbled" \/ error = <<>>
        /\ res' = [res EXCEPT ![p] =
              CASE o = "ok" ->
                     GetTokenResponse(
                       JSONParse((CHOOSE r \in AtUrl(latestTokenFile) : TRUE).content), now)
                [] o = "garbled" -> GetErrorResponse(error)
                [] o = "s404" -> GetErrorResponse(FetchFailedMessage(404))
                [] o = "s500" -> GetErrorResponse(FetchFailedMessage(500))
                [] OTHER -> GetErrorResponse(NetworkErrorMessage)]
  /\ pc' = [pc EXCEPT ![p] = "done"]
  /\ blobs' = [blobs EXCEPT ![p] = <<>>]
  /\ storeOk' = [storeOk EXCEPT ![p] = (o = "ok")]
  /\ answer' = [answer EXCEPT ![p] = o]
  /\ UNCHANGED <<now, configured, store, method, body, tokenData, pending,
                 filename, raced, lastPut, quietPost, pred>>

Next ==
  \/ Tick
  \/ \E p \in Procs, m \in Methods, b \in Bodies \cup {NoBody} : Start(p, m, b)
  \/ \E p \in Procs, o \in {"ok", "notok", "throw"} : PostList(p, o)
  \/ \E p \in Procs, o \in {"ok", "rejected", "throw"} : \E e \in pending[p] : PostDelete(p, e, o)
  \/ \E p \in Procs : PostIssuePut(p)
  \/ \E p \in Procs, o \in {"ok", "notok", "throw"} : PostPut(p, o)
  \/ \E p \in Procs, o \in {"ok", "s404", "s500", "throw"} :
        \E order \in (IF o = "ok" THEN Orderings(Listing) ELSE {<<>>}) : GetList(p, o, order)
  \/ \E p \in Procs, o \in {"ok", "garbled", "s404", "s500", "throw"} :
        \E error \in (IF o = "garbled" THEN ParseErrorMessages ELSE {<<>>}) : GetFetch(p, o, error)

Spec == Init /\ [][Next]_vars

\* ------------------------------------------------------------------ claims
PostAnswers(p) == method[p] = "POST" /\ pc[p] = "p_put" /\ pc'[p] = "done"
GetAnswers(p) == method[p] = "GET" /\ pc[p] \in {"g_list", "g_fetch"} /\ pc'[p] = "done"
IsLatest(e, S) == e \in S /\ \A x \in S : x.uploadedAt <= e.uploadedAt

\* C3: when the prefix listing returns records, GET takes the listed record
\* with the greatest uploadedAt, whatever the order of the listing, fetches
\* its url and reports what it holds there.
C3_LatestUploadedIsFetched ==
  [][\A p \in Procs :
       /\ pc[p] = "g_list" /\ pc'[p] = "g_fetch" => IsLatest(blobs'[p][1], Listing)
       /\ pc[p] = "g_fetch" /\ pc'[p] = "done" /\ answer'[p] = "ok" =>
            \E r \in AtUrl(blobs[p][1]) : res'[p] = GetTokenResponse(JSONParse(r.content), now)
    ]_vars

\* C3 witness: a GET that listed two records of different age and is about to
\* fetch the younger one.
C3_Witness ==
  \E p \in Procs :
    /\ pc[p] = "g_fetch"
    /\ Len(blobs[p]) >= 2
    /\ blobs[p][1].uploadedAt > blobs[p][2].uploadedAt

\* C4: no two POSTs send their PUT to the same key, so no PUT overwrites a
\* record written by another POST.
C4_UniqueKeys ==
  \A p \in Procs :
    pc[p] = "p_put" =>
      /\ \A q \in Procs \ {p} : pc[q] = "p_put" => filename[q] # filename[p]
      /\ \A q \in Procs \ {p} : \A r \in store : r.writer = q => r.key # filename[p]

\* C5: GET answers 410 exactly when the fetched record has an expires_at and
\* the clock is past it, and 200 otherwise; every 200 says is_valid = true.
C5_ExpiredExactlyWhenPastExpiry ==
  [][\A p \in Procs :
       pc[p] = "g_fetch" /\ pc'[p] = "done" /\ answer'[p] = "ok" =>
         \A r \in AtUrl(blobs[p][1]) :
           LET td == JSONParse(r.content)
               past == td.expires_at # Undefined /\ DateAfter(now, td.expires_at)
           IN /\ res'[p].status = 410 <=> past
              /\ res'[p].status = 200 <=> ~past
              /\ res'[p].status = 200 => res'[p].fields.is_valid = Bool(TRUE)
    ]_vars

\* C6: a failed listing or a failed delete never ends the POST with an error;
\* the PUT is still sent, and the POST answers 200 exactly when the store
\* accepted the PUT.
C6_CleanupIsBestEffort ==
  [][\A p \in Procs :
       /\ pc[p] \in {"p_list", "p_del", "p_issue"} =>
            pc'[p] \in {"p_list", "p_del", "p_issue", "p_put"} /\ res'[p] = NoResponse
       /\ PostAnswers(p) =>
            (res'[p].status = 200 <=> \E r \in store' : r.writer = p /\ r.key = filename[p])
    ]_vars

\* C6 witness: a POST answered 200 although its cleanup failed.
C6_Witness ==
  \E p \in Procs :
    /\ method[p] = "POST" /\ pc[p] = "done" /\ res[p].status = 200
    /\ ~storeOk[p]
    /\ \E r \in store : r.writer = p

\* the POST bodies that are objects without a usable access_token
NoTokenBodies == {b \in Bodies : b.access_token \in {Undefined, Str("")}}
PostStarts(p) == pc[p] = "idle" /\ pc'[p] # "idle" /\ method'[p] = "POST"
Refused400(p) ==
  /\ res'[p].status = 400 /\ res'[p].message = "access_token is required"
  /\ pc'[p] = "done" /\ pending'[p] = {} /\ store' = store

\* C7 as stated: every POST without access_token is answered 400 and leaves
\* the store alone.
C7_NoTokenIs400 ==
  [][\A p \in Procs : PostStarts(p) /\ body'[p] \in NoTokenBodies => Refused400(p)]_vars

\* C7 as amended: when the blob storage is configured, every POST whose body
\* is an object without access_token is answered 400 and leaves the store alone;
\* when it is not configured the answer is 500 and the store is left alone too.
C7_NoTokenIs400WhenConfigured ==
  [][\A p \in Procs :
       PostStarts(p) /\ body'[p] \in NoTokenBodies =>
         IF configured THEN Refused400(p)
         ELSE res'[p].status = 500 /\ pc'[p] = "done" /\ store' = store
    ]_vars

\* C7 witness: a POST with an empty access_token that was answered 400.
C7_Witness ==
  \E p \in Procs :
    /\ method[p] = "POST" /\ pc[p] = "done" /\ res[p].status = 400
    /\ body[p].access_token = Str("")

\* the record request p wrote, as long as the store holds it
WrittenBy(p) == {r \in store : r.writer = p}
NoOtherPostInFlight(p) == \A q \in Procs \ {p} : ~(method[q] = "POST" /\ InFlight(q))

AbsentOrAfter(expires_at, clock) ==
  expires_at = Undefined \/ (ParseInt(expires_at) # NaN /\ ParseInt(expires_at) > clock)
\* the GET g answers, it started right after the POST pred[g] was answered 200
\* and no other request has run since
GetAnswersRightAfterPost(g) ==
  /\ GetAnswers(g) /\ pred[g] # 0
  /\ \A q \in Procs \ {g} : ~InFlight(q) /\ (q > g => pc[q] = "idle")
  /\ Truthy(body[pred[g]].access_token)
  /\ AbsentOrAfter(body[pred[g]].expires_at, res[pred[g]].fields.stored_at.n)
GetReturnsPosted(g) ==
  /\ res'[g].status = 200
  /\ res'[g].fields.access_token = body[pred[g]].access_token
  /\ res'[g].fields.expires_at = body[pred[g]].expires_at
  /\ res'[g].fields.client_id = body[pred[g]].client_id
  /\ res'[g].fields.user_id = body[pred[g]].user_id
  /\ res'[g].fields.stored_at = res[pred[g]].fields.stored_at

\* C2 as stated: a POST answered 200, with a token and an expires_at absent
\* or in the future, followed at once by a GET makes the GET answer 200 with
\* the fields posted and the stored_at of the POST (the store taken to answer
\* the GET's listing and fetch ok).
C2_RoundTrip ==
  [][\A g \in Procs :
       GetAnswersRightAfterPost(g) /\ storeOk'[g] => GetReturnsPosted(g)]_vars

\* C2 as amended: the same, provided the store answers the GET's listing and
\* fetch ok with parsable content, the expires_at is absent or not yet passed
\* when the GET reads the clock, and every other stored record was uploaded
\* strictly before the record of the POST.
C2_RoundTripWhenLatestAndFresh ==
  [][\A g \in Procs :
       /\ GetAnswersRightAfterPost(g)
       /\ storeOk'[g]
       /\ ~DateAfter(now, body[pred[g]].expires_at)
       /\ \A r \in store : \A w \in WrittenBy(pred[g]) :
             r.writer # pred[g] => r.uploadedAt < w.uploadedAt
       => GetReturnsPosted(g)
    ]_vars

\* C2 witness: a GET right after a POST answered 200 with the token and the
\* expires_at that were posted.
C2_Witness ==
  \E g \in Procs :
    /\ method[g] = "GET" /\ pc[g] = "done" /\ pred[g] # 0
    /\ res[g].status = 200
    /\ res[g].fields.access_token = body[pred[g]].access_token
    /\ res[g].fields.expires_at = NumStr(1)
    /\ res[g].fields.stored_at = res[pred[g]].fields.stored_at

\* C8: within a POST the PUT is sent only after the listing was answered and
\* every delete was answered; a POST deletes only records that were in its
\* listing, and never the record it writes itself.
C8_DeleteThenWrite ==
  [][\A p \in Procs :
       /\ pc[p] # "p_put" /\ pc'[p] = "p_put" =>
            pc[p] = "p_issue" /\ pending[p] = {} /\ answer[p] # "none"
       /\ pc[p] = "p_list" /\ pc'[p] = "p_del" => pending'[p] = Listing
       /\ pc[p] = "p_del" /\ pending'[p] # pending[p] =>
            /\ \A r \in store \ store' : Entry(r) \in pending[p] \ pending'[p]
            /\ \A r \in store : r.writer # p
    ]_vars

\* C9: GET answers 404 to an ok listing without records and to a listing or
\* fetch the store answers with 404, and 500 "Failed to retrieve token" to any
\* other failed listing or fetch and to unparsable content; the store is
\* left as it was.
C9_GetErrorMapping ==
  [][\A p \in Procs :
       GetAnswers(p) =>
         /\ store' = store
         /\ pc[p] = "g_list" /\ answer'[p] = "ok" => res'[p].status = 404
         /\ answer'[p] = "s404" => res'[p].status = 404
         /\ answer'[p] \in {"s500", "throw", "garbled"} =>
              res'[p].status = 500 /\ res'[p].message = "Failed to retrieve token"
    ]_vars

\* every request was a POST that was answered 200 and whose store calls were
\* all answered ok
AllPostsSucceeded ==
  \A p \in Procs :
    method[p] = "POST" /\ pc[p] = "done" /\ res[p].status = 200 /\ storeOk[p]
\* what a GET takes from the listing `order`
LatestTokenFile(order) == SortBlobs(order)[1]

\* C10 as stated: once all POSTs were answered 200 the store holds a record,
\* and the record with the greatest uploadedAt, the one a GET returns, is the
\* one of the PUT the store executed last.
C10_LastPutWins ==
  AllPostsSucceeded =>
    /\ store # {}
    /\ \A e \in Listing : IsLatest(e, Listing) => e.writer = lastPut
    /\ \A order \in Orderings(Listing) : LatestTokenFile(order).writer = lastPut

\* C10 as amended: once all POSTs were answered 200 the store holds the record
\* of the PUT it executed last, no record has a greater uploadedAt, a GET
\* takes a record of that uploadedAt, and it takes the record of the last PUT
\* when every other record was uploaded strictly before it.
C10_LastPutIsALatest ==
  AllPostsSucceeded =>
    \E e \in Listing :
      /\ e.writer = lastPut
      /\ IsLatest(e, Listing)
      /\ \A order \in Orderings(Listing) :
           /\ LatestTokenFile(order).uploadedAt = e.uploadedAt
           /\ (\A x \in Listing \ {e} : x.uploadedAt < e.uploadedAt) =>
                LatestTokenFile(order) = e

\* C10 witness: two overlapping POSTs were answered 200 and both records are
\* in the store, the one of the last PUT the younger.
C10_Witness ==
  /\ AllPostsSucceeded
  /\ Cardinality(store) >= 2
  /\ \E e \in Listing : e.writer = lastPut /\ \A x \in Listing \ {e} : x.uploadedAt < e.uploadedAt

=============================================================================
